---------------------------- MODULE Spec2Model ----------------------------
(***************************************************************************)
(* A model of pydst: the Dst client (pydst/pydst.py), its helpers          *)
(* (pydst/utils.py) and its validators (pydst/validators.py).              *)
(*                                                                         *)
(* Python values are records [t, s, n, b, l]: t is the type tag, s the     *)
(* characters of a str, n the value of an int, b the value of a bool and l *)
(* the elements of a list.  A str is a sequence of one-character strings,  *)
(* so that pattern matching, joining and stripping work on characters.     *)
(***************************************************************************)
EXTENDS Integers, Sequences, FiniteSets, TLC

VARIABLES client, nreq, files, last, pc

vars == <<client, nreq, files, last, pc>>

---------------------------------------------------------------------------
(* Python values *)

PyNone == [t |-> "none", s |-> <<>>, n |-> 0, b |-> FALSE, l |-> <<>>]

PyStr(chars) == [t |-> "str", s |-> chars, n |-> 0, b |-> FALSE, l |-> <<>>]

PyInt(i) == [t |-> "int", s |-> <<>>, n |-> i, b |-> FALSE, l |-> <<>>]

PyBool(v) == [t |-> "bool", s |-> <<>>, n |-> 0, b |-> v, l |-> <<>>]

PyList(elems) == [t |-> "list", s |-> <<>>, n |-> 0, b |-> FALSE, l |-> elems]

(* bool(v): the truth value Python gives v in `if v:` and `not v` *)
Truthy(v) ==
    CASE v.t = "none" -> FALSE
      [] v.t = "str"  -> v.s # <<>>
      [] v.t = "int"  -> v.n # 0
      [] v.t = "bool" -> v.b
      [] v.t = "list" -> v.l # <<>>
      [] OTHER        -> TRUE

(* v == True: a bool equals True when it is True, an int when it is 1 *)
EqualsTrue(v) == (v.t = "bool" /\ v.b) \/ (v.t = "int" /\ v.n = 1)

IsInstance(v, types) == v.t \in types

Digits == {"0", "1", "2", "3", "4", "5", "6", "7", "8", "9"}

Letters == {"a", "b", "c", "d", "e", "f", "g", "h", "i", "j", "k", "l", "m",
            "n", "o", "p", "q", "r", "s", "t", "u", "v", "w", "x", "y", "z",
            "A", "B", "C", "D", "E", "F", "G", "H", "I", "J", "K", "L", "M",
            "N", "O", "P", "Q", "R", "S", "T", "U", "V", "W", "X", "Y", "Z"}

(* sep.join(strs) on a sequence of character sequences *)
RECURSIVE Join(_, _)
Join(strs, sep) ==
    IF strs = <<>> THEN <<>>
    ELSE IF Len(strs) = 1 THEN strs[1]
    ELSE strs[1] \o sep \o Join(Tail(strs), sep)

(* The result of a call: the exception it raised ("none" when it returned) *)
(* and the value it returned.                                              *)
Raised(e) == [exc |-> e, ret |-> PyNone]

Returned(v) == [exc |-> "none", ret |-> v]

---------------------------------------------------------------------------
(* pydst/validators.py *)

(* A cerberus rule {'type': 'string', 'regex': cls+}: the value is a str, *)
(* it is not empty, and every character of it is in the class.             *)
StringRegexOk(v, cls) ==
    /\ v.t = "str"
    /\ v.s # <<>>
    /\ \A i \in 1..Len(v.s) : v.s[i] \in cls

(* A cerberus rule {'type': 'list', 'schema': {'type': 'string', 'regex': cls+}} *)
ListOfRegexOk(v, cls) ==
    /\ v.t = "list"
    /\ \A i \in 1..Len(v.l) : StringRegexOk(v.l[i], cls)

str_in_list(str, list) == \E i \in 1..Len(list.l) : list.l[i] = str

(* validation_error_raise: ValueError when the validator recorded an error *)
validation_error_raise(errors) == IF errors # {} THEN "ValueError" ELSE "none"

(* lang_validator without the membership test *)
lang_validator_pattern_only(lang, valid_langs) ==
    LET errors == (IF StringRegexOk(lang, Letters) THEN {} ELSE {"lang"})
                  \cup (IF ListOfRegexOk(valid_langs, Letters) THEN {}
                        ELSE {"valid_langs"})
    IN  validation_error_raise(errors)

(* lang_validator: the exception it raises, "none" when it returns None *)
lang_validator(lang, valid_langs) ==
    LET errors == (IF StringRegexOk(lang, Letters) THEN {} ELSE {"lang"})
                  \cup (IF ListOfRegexOk(valid_langs, Letters) THEN {}
                        ELSE {"valid_langs"})
    IN  IF validation_error_raise(errors) # "none" THEN "ValueError"
        ELSE IF ~str_in_list(lang, valid_langs) THEN "ValueError"
        ELSE "none"

(* subject_validator: the exception it raises, "none" when it returns *)
subject_validator(subjects) ==
    LET errors == IF StringRegexOk(subjects, Digits)
                     \/ ListOfRegexOk(subjects, Digits)
                  THEN {} ELSE {"subjects"}
    IN  validation_error_raise(errors)

---------------------------------------------------------------------------
(* pydst/utils.py *)

ValidLangs == PyList(<<PyStr(<<"d", "a">>), PyStr(<<"e", "n">>)>>)

check_lang(lang) ==
    IF lang_validator(lang, ValidLangs) # "none" THEN Raised("ValueError")
    ELSE Returned(lang)

assign_lang(self, lang) ==
    IF Truthy(lang) THEN check_lang(lang) ELSE check_lang(self.lang)

(* A response of the transport: r.ok is what raise_for_status decides *)
ok(r) == ~(r.status_code >= 400 /\ r.status_code < 600)

(* r.json() raises when the body is empty or is no JSON *)
JsonRaises(r) == r.body.kind = "invalid"

(* r.json().get(key, None) is truthy *)
GetTruthy(r, key) ==
    IF key = "errorTypeCode" THEN r.body.hasCode /\ r.body.code # 0
    ELSE r.body.hasMsg /\ r.body.msg # ""

NoError == [exc |-> "none", status |-> 0, reason |-> ""]

HTTPError(status, reason) ==
    [exc |-> "HTTPError", status |-> status, reason |-> reason]

OtherError(e) == [exc |-> e, status |-> 0, reason |-> ""]

(* bad_request_wrapper: the error it raises, NoError when it returns *)
bad_request_wrapper(r) ==
    IF ~ok(r)
    THEN IF JsonRaises(r) THEN OtherError("JSONDecodeError")
         ELSE IF r.body.kind # "object" THEN OtherError("AttributeError")
         ELSE IF GetTruthy(r, "errorTypeCode") /\ GetTruthy(r, "message")
              THEN HTTPError(r.status_code, r.body.msg)
              ELSE HTTPError(r.status_code, r.reason)
    ELSE NoError

(* json_to_df_dict appending the record of every node, then recursing *)
RECURSIVE json_to_df_dict_with_parents(_)
json_to_df_dict_with_parents(list_) ==
    IF list_ = <<>> THEN <<>>
    ELSE LET i == Head(list_)
         IN  << [id |-> i.id, desc |-> i.description,
                 active |-> i.active, hasSubjects |-> i.hasSubjects] >>
             \o json_to_df_dict_with_parents(i.subjects)
             \o json_to_df_dict_with_parents(Tail(list_))

(* json_to_df_dict: the records of the nodes without sub subjects *)
RECURSIVE json_to_df_dict(_)
json_to_df_dict(list_) ==
    IF list_ = <<>> THEN <<>>
    ELSE LET i == Head(list_)
         IN  (IF i.subjects = <<>>
              THEN << [id |-> i.id, desc |-> i.description,
                       active |-> i.active, hasSubjects |-> i.hasSubjects] >>
              ELSE json_to_df_dict(i.subjects))
             \o json_to_df_dict(Tail(list_))

(* pandas.DataFrame(rows) *)
DataFrame(rows) == [rows |-> rows]

desc_to_df(list_) == DataFrame(json_to_df_dict(list_))

(* os.path.join(i, ''): i with a separator after it, unless i is empty *)
PathJoinEmpty(i) ==
    IF i = <<>> THEN <<>>
    ELSE IF i[Len(i)] = "/" THEN i
    ELSE i \o <<"/">>

(* str.replace of one character by another *)
Replace(str, old, new) == [k \in 1..Len(str) |-> IF str[k] = old THEN new ELSE str[k]]

(* str.strip(c) *)
RECURSIVE LStrip(_, _)
LStrip(str, c) ==
    IF str # <<>> /\ Head(str) = c THEN LStrip(Tail(str), c) ELSE str

RECURSIVE RStrip(_, _)
RStrip(str, c) ==
    IF str # <<>> /\ str[Len(str)] = c
    THEN RStrip(SubSeq(str, 1, Len(str) - 1), c) ELSE str

Strip(str, c) == RStrip(LStrip(str, c), c)

(* A dict is a sequence of items [k, v] in insertion order *)
RECURSIVE flatten_list_to_string_in_dict_remove_none(_)
flatten_list_to_string_in_dict_remove_none(dict) ==
    IF dict = <<>> THEN <<>>
    ELSE LET it == Head(dict)
             rest == flatten_list_to_string_in_dict_remove_none(Tail(dict))
         IN  IF it.v.t = "none" THEN rest
             ELSE IF it.v.t = "str" THEN <<[k |-> it.k, v |-> it.v.s]>> \o rest
             ELSE <<[k |-> it.k,
                     v |-> Join([j \in 1..Len(it.v.l) |-> it.v.l[j].s], <<",">>)]>>
                  \o rest

(* construct_url without the final strip('/') *)
construct_url_keep_trailing(base, version, app, path, query) ==
    LET url_without_query == PathJoinEmpty(base) \o PathJoinEmpty(version)
                             \o PathJoinEmpty(app) \o PathJoinEmpty(path)
        q == flatten_list_to_string_in_dict_remove_none(query)
        query_str == Join([j \in 1..Len(q) |-> q[j].k \o <<"=">> \o q[j].v], <<"&">>)
    IN  Replace(url_without_query, "\\", "/") \o <<"?">> \o query_str

construct_url(base, version, app, path, query) ==
    LET url_without_query == PathJoinEmpty(base) \o PathJoinEmpty(version)
                             \o PathJoinEmpty(app) \o PathJoinEmpty(path)
        q == flatten_list_to_string_in_dict_remove_none(query)
        query_str == Join([j \in 1..Len(q) |-> q[j].k \o <<"=">> \o q[j].v], <<"&">>)
    IN  Strip(Replace(url_without_query, "\\", "/"), "/") \o <<"?">> \o query_str

---------------------------------------------------------------------------
(* Bounds of the model *)

(* The calls stop once this many GET requests have been issued *)
MaxRequests == 3

(* The subject trees handed to desc_to_df have at most this many nodes *)
MaxNodes == 4

---------------------------------------------------------------------------
(* The transport and the server *)

Body(kind, hasCode, code, hasMsg, msg, payload) ==
    [kind |-> kind, hasCode |-> hasCode, code |-> code, hasMsg |-> hasMsg,
     msg |-> msg, payload |-> payload]

(* The documents a body holds: a JSON array, the lines of a text *)
JsonArray(items) == [items |-> items]

Text(lines) == [lines |-> lines]

Response(status_code, reason, body) ==
    [status_code |-> status_code, reason |-> reason, body |-> body]

(* The bodies a failing response may carry: empty or not JSON, a JSON     *)
(* object with or without the fields errorTypeCode and message, a JSON    *)
(* array.                                                                 *)
FailBodies ==
    { Body("invalid", FALSE, 0, FALSE, "", JsonArray(<<>>)),
      Body("object", TRUE, 1, TRUE, "Quota exceeded", JsonArray(<<>>)),
      Body("object", TRUE, 0, TRUE, "Quota exceeded", JsonArray(<<>>)),
      Body("object", TRUE, 1, FALSE, "", JsonArray(<<>>)),
      Body("object", FALSE, 0, FALSE, "", JsonArray(<<>>)),
      Body("array", FALSE, 0, FALSE, "", JsonArray(<<>>)) }

FailResponses ==
    { Response(404, "Not Found", b) : b \in FailBodies }
    \cup { Response(500, "Internal Server Error", b) :
             b \in { c \in FailBodies : c.kind = "invalid" \/ (c.hasCode /\ c.hasMsg) } }

OkResponses(kind, payloads) ==
    { Response(200, "OK", Body(kind, FALSE, 0, FALSE, "", p)) : p \in payloads }

(* A GET request, with the response the server gave to it *)
Get(url, stream, r) == [url |-> url, stream |-> stream, r |-> r]

Leaf(id, hasSubjects) ==
    [id |-> id, description |-> id, active |-> TRUE, hasSubjects |-> hasSubjects,
     subjects |-> <<>>]

Parent(id, subjects) ==
    [id |-> id, description |-> id, active |-> TRUE, hasSubjects |-> TRUE,
     subjects |-> subjects]

(* The subject trees the server answers with *)
SubjectPayloads ==
    { JsonArray(<<Leaf("02", TRUE), Leaf("05", TRUE)>>),
      JsonArray(<<Leaf("02", FALSE),
                  Parent("05", <<Leaf("0501", FALSE), Leaf("0502", FALSE)>>)>>),
      JsonArray(<<Parent("02", <<Parent("0201", <<Leaf("020101", FALSE)>>),
                                 Leaf("0202", FALSE)>>)>>) }

(* The table lists the server answers with *)
TablePayloads ==
    { JsonArray(<<>>),
      JsonArray(<< [id |-> "FOLK1A", active |-> TRUE, updated |-> "2018-05-08T08:00:00"],
                   [id |-> "BEV3A", active |-> FALSE, updated |-> "2017-11-28T08:00:00"] >>) }

Variable(id, values) == [id |-> id, values |-> [j \in 1..Len(values) |-> [id |-> values[j]]]]

(* The table descriptions the server answers with: every variable has at  *)
(* least one allowed value                                                *)
TableInfoPayloads ==
    { [id |-> "FOLK1A", text |-> "Population",
       variables |-> << Variable(<<"A">>, << <<"a">>, <<"b">> >>),
                        Variable(<<"B">>, << <<"c">> >>) >>],
      [id |-> "BEV3A", text |-> "Births",
       variables |-> << Variable(<<"B">>, << <<"d">>, <<"c">> >>) >>] }

(* The bulk data the server answers with: lines of cells *)
BulkPayloads ==
    { Text(<< <<"A", "B", "INDHOLD">>, <<"a", "c", "1">>, <<"b", "c", "2">> >>) }

(* The file system: the directories that exist, the home and the working  *)
(* directory of the caller                                                *)
Home == <<"home", "u">>

Cwd == <<"home", "u", "w">>

ExistingDirs == { <<>>, <<"home">>, Home, Cwd }

---------------------------------------------------------------------------
(* pydst/pydst.py *)

S_en == <<"e", "n">>

S_da == <<"d", "a">>

S_fi == <<"f", "i">>

S_lang == <<"l", "a", "n", "g">>

S_format == <<"f", "o", "r", "m", "a", "t">>

S_JSON == <<"J", "S", "O", "N">>

S_subjects == <<"s", "u", "b", "j", "e", "c", "t", "s">>

base_url == <<"h", "t", "t", "p", "s", ":", "/", "/", "a", "p", "i", ".", "s", "t", "a", "t", "b", "a", "n", "k", ".", "d", "k">>

version == <<"v", "1">>

(* The outcome of a call of a method: the error raised (NoError when it   *)
(* returned), the GET requests it issued, the value it returned.          *)
Outcome(err, reqs, ret) ==
    [exc |-> err.exc, status |-> err.status, reason |-> err.reason,
     reqs |-> reqs, ret |-> ret]

default_lang == PyStr(S_en)

NoClient == [made |-> FALSE, lang |-> PyNone]

(* Dst.__init__ storing lang as given, leaving the check to the first call *)
Dst_init_deferred(lang) == [exc |-> "none", self |-> [made |-> TRUE, lang |-> lang]]

(* Dst.__init__: the client it makes, or the error of check_lang *)
Dst_init(lang) ==
    LET l == check_lang(lang)
    IN  IF l.exc # "none" THEN [exc |-> l.exc, self |-> NoClient]
        ELSE [exc |-> "none", self |-> [made |-> TRUE, lang |-> l.ret]]

(* Dst.get_subjects, r being the response the server gives to its request *)
get_subjects(self, subjects, lang, r) ==
    LET l == assign_lang(self, lang)
    IN  IF l.exc # "none" THEN Outcome(OtherError(l.exc), <<>>, PyNone)
        ELSE IF ~IsInstance(subjects, {"str", "list", "none"})
        THEN Outcome(OtherError("ValueError"), <<>>, PyNone)
        ELSE IF IsInstance(subjects, {"str", "list"})
                /\ subject_validator(subjects) # "none"
        THEN Outcome(OtherError("ValueError"), <<>>, PyNone)
        ELSE LET query_dict == << [k |-> S_lang, v |-> l.ret],
                                  [k |-> S_format, v |-> PyStr(S_JSON)] >>
                 url == construct_url(base_url, version, S_subjects, <<>>, query_dict)
                 reqs == << Get(url, FALSE, r) >>
                 err == bad_request_wrapper(r)
             IN  IF err.exc # "none" THEN Outcome(err, reqs, PyNone)
                 ELSE Outcome(NoError, reqs, desc_to_df(r.body.payload.items))

S_tables_url == <<"h", "t", "t", "p", ":", "/", "/", "a", "p", "i", ".", "s", "t", "a", "t", "b", "a", "n", "k", ".", "d", "k", "/", "v", "1", "/", "t", "a", "b", "l", "e", "s">>

S_q_lang == <<"?", "l", "a", "n", "g", "=">>

S_and_subjects == <<"&", "s", "u", "b", "j", "e", "c", "t", "s", "=">>

S_include_inactive == <<"&", "i", "n", "c", "l", "u", "d", "e", "I", "n", "a", "c", "t", "i", "v", "e", "=", "t", "r", "u", "e">>

S_tableinfo_url == <<"h", "t", "t", "p", ":", "/", "/", "a", "p", "i", ".", "s", "t", "a", "t", "b", "a", "n", "k", ".", "d", "k", "/", "v", "1", "/", "t", "a", "b", "l", "e", "i", "n", "f", "o", "/">>

S_data_url == <<"h", "t", "t", "p", ":", "/", "/", "a", "p", "i", ".", "s", "t", "a", "t", "b", "a", "n", "k", ".", "d", "k", "/", "v", "1", "/", "d", "a", "t", "a", "/">>

S_bulk == <<"/", "B", "U", "L", "K", "?", "l", "a", "n", "g", "=">>

S_delimiter == <<"&", "d", "e", "l", "i", "m", "i", "t", "e", "r", "=", "S", "e", "m", "i", "c", "o", "l", "o", "n", "&">>

(* to_datetime on the column updated *)
to_datetime(rows) ==
    [j \in 1..Len(rows) |-> [rows[j] EXCEPT !.updated = [datetime |-> rows[j].updated]]]

(* Dst.get_tables, r being the response the server gives to its request *)
get_tables(self, subjects, inactive_tables, lang, r) ==
    LET l == assign_lang(self, lang)
        tab_url == IF ~Truthy(subjects) THEN S_tables_url \o S_q_lang \o l.ret.s
                   ELSE IF IsInstance(subjects, {"str"})
                   THEN S_tables_url \o S_q_lang \o l.ret.s \o S_and_subjects \o subjects.s
                   ELSE S_tables_url \o S_q_lang \o l.ret.s \o S_and_subjects
                        \o Join([j \in 1..Len(subjects.l) |-> subjects.l[j].s], <<",">>)
        url == IF EqualsTrue(inactive_tables) THEN tab_url \o S_include_inactive
               ELSE tab_url
        reqs == << Get(url, FALSE, r) >>
        err == bad_request_wrapper(r)
    IN  IF l.exc # "none" THEN Outcome(OtherError(l.exc), <<>>, PyNone)
        ELSE IF Truthy(subjects) /\ ~IsInstance(subjects, {"str", "list"})
        THEN Outcome(OtherError("ValueError"), <<>>, PyNone)
        ELSE IF Truthy(subjects) /\ IsInstance(subjects, {"list"})
                /\ \E j \in 1..Len(subjects.l) : subjects.l[j].t # "str"
        THEN Outcome(OtherError("TypeError"), <<>>, PyNone)
        ELSE IF ~EqualsTrue(inactive_tables) /\ ~IsInstance(inactive_tables, {"bool"})
        THEN Outcome(OtherError("ValueError"), <<>>, PyNone)
        ELSE IF err.exc # "none" THEN Outcome(err, reqs, PyNone)
        ELSE IF r.body.payload.items = <<>> THEN Outcome(OtherError("KeyError"), reqs, PyNone)
        ELSE Outcome(NoError, reqs, DataFrame(to_datetime(r.body.payload.items)))

(* get_variables asking the server twice for the description of the table *)
get_variables_twice(self, table_id, lang, r) ==
    LET l == assign_lang(self, lang)
        url == S_tableinfo_url \o table_id \o S_q_lang \o l.ret.s
        reqs == << Get(url, FALSE, r), Get(url, FALSE, r) >>
        err == bad_request_wrapper(r)
    IN  IF l.exc # "none" THEN Outcome(OtherError(l.exc), <<>>, PyNone)
        ELSE IF err.exc # "none" THEN Outcome(err, reqs, PyNone)
        ELSE Outcome(NoError, reqs, DataFrame(r.body.payload.variables))

(* Dst.get_variables *)
get_variables(self, table_id, lang, r) ==
    LET l == assign_lang(self, lang)
        url == S_tableinfo_url \o table_id \o S_q_lang \o l.ret.s
        reqs == << Get(url, FALSE, r) >>
        err == bad_request_wrapper(r)
    IN  IF l.exc # "none" THEN Outcome(OtherError(l.exc), <<>>, PyNone)
        ELSE IF err.exc # "none" THEN Outcome(err, reqs, PyNone)
        ELSE Outcome(NoError, reqs, DataFrame(r.body.payload.variables))

(* Dst.get_metadata *)
get_metadata(self, table_id, lang, r) ==
    LET l == assign_lang(self, lang)
        url == S_tableinfo_url \o table_id \o S_q_lang \o l.ret.s
        reqs == << Get(url, FALSE, r) >>
        err == bad_request_wrapper(r)
    IN  IF l.exc # "none" THEN Outcome(OtherError(l.exc), <<>>, PyNone)
        ELSE IF err.exc # "none" THEN Outcome(err, reqs, PyNone)
        ELSE Outcome(NoError, reqs,
                     [id |-> r.body.payload.id, text |-> r.body.payload.text])

(* The keys of a dict *)
Keys(dict) == { dict[j].k : j \in 1..Len(dict) }

(* {row id: [id of the first value of row]} for the rows the filter keeps *)
RECURSIVE FirstValues(_, _)
FirstValues(rows, skip) ==
    IF rows = <<>> THEN <<>>
    ELSE (IF Head(rows).id \in skip THEN <<>>
          ELSE << [k |-> Head(rows).id, v |-> << Head(rows).values[1].id >>] >>)
         \o FirstValues(Tail(rows), skip)

(* get_data: the selections of the bulk query *)
get_data_args(rows, variables) ==
    IF variables.t = "none" THEN FirstValues(rows, {})
    ELSE variables.d \o FirstValues(rows, Keys(variables.d))

(* get_csv taking the first value of every variable whatever the caller selects *)
get_csv_args_first_only(rows, variables) == FirstValues(rows, {})

(* get_csv: the selections of the bulk query *)
get_csv_args(rows, variables) ==
    IF variables.t = "none" THEN FirstValues(rows, {})
    ELSE variables.d \o FirstValues(rows, Keys(variables.d))

(* '&'.join([key + '=' + ','.join(value) for key, value in args.items()]) *)
arg_str(args) ==
    Join([j \in 1..Len(args) |-> args[j].k \o <<"=">> \o Join(args[j].v, <<",">>)], <<"&">>)

(* read_csv(..., sep=';'): the first line names the columns *)
read_csv(lines) == [columns |-> Head(lines), rows |-> Tail(lines)]

(* Dst.get_data, r1 and r2 being the responses to its requests *)
get_data(self, table_id, variables, lang, r1, r2) ==
    LET l == assign_lang(self, lang)
        vars_ == get_variables(self, table_id, l.ret, r1)
        args == get_data_args(vars_.ret.rows, variables)
        url == S_data_url \o table_id \o S_bulk \o l.ret.s \o S_delimiter \o arg_str(args)
        reqs == vars_.reqs \o << Get(url, FALSE, r2) >>
        err == bad_request_wrapper(r2)
    IN  IF l.exc # "none" THEN Outcome(OtherError(l.exc), <<>>, PyNone)
        ELSE IF vars_.exc # "none" THEN vars_
        ELSE IF variables.t \notin {"none", "dict"}
        THEN Outcome(OtherError("ValueError"), vars_.reqs, PyNone)
        ELSE IF err.exc # "none" THEN Outcome(err, reqs, PyNone)
        ELSE Outcome(NoError, reqs, read_csv(r2.body.payload.lines))

(* os.path.expanduser, os.path.abspath, os.path.dirname, os.path.exists *)
expanduser(path) ==
    IF path.anchor = "~" THEN [anchor |-> "/", parts |-> Home \o path.parts] ELSE path

abspath(path) ==
    IF path.anchor = "/" THEN path ELSE [anchor |-> "/", parts |-> Cwd \o path.parts]

dirname(path) == [path EXCEPT !.parts = SubSeq(path.parts, 1, Len(path.parts) - 1)]

exists(path, fs) == path.parts \in ExistingDirs \cup { f.path : f \in fs }

(* open(path, 'wb') and the loop writing every line and a newline after it *)
WriteLines(fs, path, lines) ==
    { f \in fs : f.path # path.parts }
    \cup { [path |-> path.parts, lines |-> [j \in 1..Len(lines) |-> <<lines[j], "\n">>]] }

(* Dst.get_csv looking for the directory only when it is about to write *)
get_csv_late_check(self, path, table_id, variables, lang, r1, r2, fs) ==
    LET l == assign_lang(self, lang)
        vars_ == get_variables(self, table_id, l.ret, r1)
        args == get_csv_args(vars_.ret.rows, variables)
        url == S_data_url \o table_id \o S_bulk \o l.ret.s \o S_delimiter \o arg_str(args)
        reqs == vars_.reqs \o << Get(url, TRUE, r2) >>
        err == bad_request_wrapper(r2)
        Ends(out, fs2) == [out |-> out, files |-> fs2]
    IN  IF l.exc # "none" THEN Ends(Outcome(OtherError(l.exc), <<>>, PyNone), fs)
        ELSE IF vars_.exc # "none" THEN Ends(vars_, fs)
        ELSE IF variables.t \notin {"none", "dict"}
        THEN Ends(Outcome(OtherError("ValueError"), vars_.reqs, PyNone), fs)
        ELSE IF err.exc # "none" THEN Ends(Outcome(err, reqs, PyNone), fs)
        ELSE IF ~exists(dirname(abspath(expanduser(path))), fs)
        THEN Ends(Outcome(OtherError("OSError"), reqs, PyNone), fs)
        ELSE Ends(Outcome(NoError, reqs, PyNone),
                  WriteLines(fs, abspath(expanduser(path)), r2.body.payload.lines))

(* Dst.get_csv, fs being the files when it is called: its outcome and the *)
(* files when it ends                                                     *)
get_csv(self, path, table_id, variables, lang, r1, r2, fs) ==
    LET l == assign_lang(self, lang)
        vars_ == get_variables(self, table_id, l.ret, r1)
        args == get_csv_args(vars_.ret.rows, variables)
        url == S_data_url \o table_id \o S_bulk \o l.ret.s \o S_delimiter \o arg_str(args)
        reqs == vars_.reqs \o << Get(url, TRUE, r2) >>
        err == bad_request_wrapper(r2)
        Ends(out, fs2) == [out |-> out, files |-> fs2]
    IN  IF l.exc # "none" THEN Ends(Outcome(OtherError(l.exc), <<>>, PyNone), fs)
        ELSE IF ~exists(dirname(abspath(expanduser(path))), fs)
        THEN Ends(Outcome(OtherError("OSError"), <<>>, PyNone), fs)
        ELSE IF vars_.exc # "none" THEN Ends(vars_, fs)
        ELSE IF variables.t \notin {"none", "dict"}
        THEN Ends(Outcome(OtherError("ValueError"), vars_.reqs, PyNone), fs)
        ELSE IF err.exc # "none" THEN Ends(Outcome(err, reqs, PyNone), fs)
        ELSE Ends(Outcome(NoError, reqs, PyNone),
                  WriteLines(fs, abspath(expanduser(path)), r2.body.payload.lines))

---------------------------------------------------------------------------
(* The state: the client object, the number of GET requests issued so far, *)
(* the files written, the call in progress or just finished (its           *)
(* arguments and its outcome), and the position of the caller.             *)

NoVariables == [t |-> "none", d |-> <<>>]

NoPath == [anchor |-> "/", parts |-> <<>>]

NoCall ==
    [op |-> "none", lang |-> PyNone, subjects |-> PyNone, inactive |-> PyNone,
     table_id |-> <<>>, variables |-> NoVariables, path |-> NoPath,
     exc |-> "none", status |-> 0, reason |-> "", reqs |-> <<>>, ret |-> PyNone]

Finished(call, out) ==
    [call EXCEPT !.exc = out.exc, !.status = out.status, !.reason = out.reason,
                 !.reqs = out.reqs, !.ret = out.ret]

(* The arguments the callers pass *)
LangInputs ==
    { PyNone, PyStr(S_en), PyStr(S_da), PyStr(S_fi), PyStr(<<>>),
      PyStr(<<"E", "N">>), PyStr(<<"e", "1">>), PyInt(0), PyInt(2), PyBool(TRUE) }

SubjectInputs ==
    { PyNone, PyStr(<<"0", "2">>), PyStr(<<"a", "2">>), PyStr(<<>>),
      PyList(<<>>), PyList(<<PyStr(<<"0", "2">>), PyStr(<<"0", "5">>)>>),
      PyList(<<PyStr(<<"0", "2">>), PyStr(<<"x">>)>>),
      PyList(<<PyInt(2)>>),
      PyInt(0), PyInt(2), PyBool(FALSE), PyBool(TRUE) }

InactiveInputs == { PyBool(FALSE), PyBool(TRUE), PyInt(0), PyInt(1), PyInt(2) }

TableIds == { <<"F", "O", "L", "K", "1", "A">>, <<"B", "E", "V", "3", "A">> }

Dict(items) == [t |-> "dict", d |-> items]

VariablesInputs ==
    { NoVariables,
      Dict(<<>>),
      Dict(<< [k |-> <<"A">>, v |-> << <<"b">> >>] >>),
      Dict(<< [k |-> <<"B">>, v |-> << <<"c">>, <<"d">> >>],
              [k |-> <<"A">>, v |-> << <<"a">> >>] >>),
      Dict(<< [k |-> <<"Z">>, v |-> << <<"q">> >>] >>),
      [t |-> "int", d |-> <<>>],
      [t |-> "list", d |-> <<>>] }

PathInputs ==
    { [anchor |-> ".", parts |-> <<"out.csv">>],
      [anchor |-> "~", parts |-> <<"data", "out.csv">>],
      [anchor |-> "/", parts |-> <<"nodir", "out.csv">>] }

Init ==
    /\ client = NoClient
    /\ nreq = 0
    /\ files = {}
    /\ last = NoCall
    /\ pc = "idle"

(* The responses of the server to the requests of each resource *)
SubjectResponses == FailResponses \cup OkResponses("array", SubjectPayloads)

TableResponses == FailResponses \cup OkResponses("array", TablePayloads)

TableInfoResponses == FailResponses \cup OkResponses("object", TableInfoPayloads)

BulkResponses == FailResponses \cup OkResponses("csv", BulkPayloads)

(* A method may be called when the caller holds a client and is not in a call *)
CanCall ==
    /\ pc = "idle"
    /\ client.made
    /\ nreq < MaxRequests

(* utils.check_lang(lang), called on its own *)
CheckLang ==
    /\ pc = "idle"
    /\ \E lang \in LangInputs :
         \E l \in { check_lang(lang) } :
           last' = [NoCall EXCEPT !.op = "check_lang", !.lang = lang, !.exc = l.exc,
                                  !.ret = l.ret]
    /\ pc' = "done"
    /\ UNCHANGED <<client, nreq, files>>

(* Dst(lang): a failing construction leaves the caller without a new client *)
Construct ==
    /\ pc = "idle"
    /\ \E lang \in LangInputs :
         \E made \in { Dst_init(lang) } :
           /\ client' = IF made.exc = "none" THEN made.self ELSE client
           /\ last' = [NoCall EXCEPT !.op = "Dst", !.lang = lang, !.exc = made.exc,
                                     !.ret = made.self]
    /\ pc' = "done"
    /\ UNCHANGED <<nreq, files>>

(* Dst(): lang takes its default *)
ConstructDefault ==
    /\ pc = "idle"
    /\ \E made \in { Dst_init(default_lang) } :
           /\ client' = IF made.exc = "none" THEN made.self ELSE client
           /\ last' = [NoCall EXCEPT !.op = "Dst()", !.exc = made.exc,
                                     !.ret = made.self]
    /\ pc' = "done"
    /\ UNCHANGED <<nreq, files>>

GetSubjects ==
    /\ CanCall
    /\ \E subjects \in SubjectInputs, lang \in LangInputs, r \in SubjectResponses :
         \E out \in { get_subjects(client, subjects, lang, r) } :
           /\ last' = Finished([NoCall EXCEPT !.op = "get_subjects",
                                              !.subjects = subjects, !.lang = lang], out)
           /\ nreq' = nreq + Len(out.reqs)
    /\ pc' = "done"
    /\ UNCHANGED <<client, files>>

GetTables ==
    /\ CanCall
    /\ \E subjects \in SubjectInputs, inactive_tables \in InactiveInputs,
          lang \in LangInputs, r \in TableResponses :
         \E out \in { get_tables(client, subjects, inactive_tables, lang, r) } :
           /\ last' = Finished([NoCall EXCEPT !.op = "get_tables", !.subjects = subjects,
                                              !.inactive = inactive_tables,
                                              !.lang = lang], out)
           /\ nreq' = nreq + Len(out.reqs)
    /\ pc' = "done"
    /\ UNCHANGED <<client, files>>

GetVariables ==
    /\ CanCall
    /\ \E table_id \in TableIds, lang \in LangInputs, r \in TableInfoResponses :
         \E out \in { get_variables(client, table_id, lang, r) } :
           /\ last' = Finished([NoCall EXCEPT !.op = "get_variables",
                                              !.table_id = table_id, !.lang = lang], out)
           /\ nreq' = nreq + Len(out.reqs)
    /\ pc' = "done"
    /\ UNCHANGED <<client, files>>

GetMetadata ==
    /\ CanCall
    /\ \E table_id \in TableIds, lang \in LangInputs, r \in TableInfoResponses :
         \E out \in { get_metadata(client, table_id, lang, r) } :
           /\ last' = Finished([NoCall EXCEPT !.op = "get_metadata",
                                              !.table_id = table_id, !.lang = lang], out)
           /\ nreq' = nreq + Len(out.reqs)
    /\ pc' = "done"
    /\ UNCHANGED <<client, files>>

GetData ==
    /\ CanCall
    /\ \E table_id \in TableIds, variables \in VariablesInputs, lang \in LangInputs,
          r1 \in TableInfoResponses, r2 \in BulkResponses :
         \E out \in { get_data(client, table_id, variables, lang, r1, r2) } :
           /\ last' = Finished([NoCall EXCEPT !.op = "get_data", !.table_id = table_id,
                                              !.variables = variables, !.lang = lang], out)
           /\ nreq' = nreq + Len(out.reqs)
    /\ pc' = "done"
    /\ UNCHANGED <<client, files>>

GetCsv ==
    /\ CanCall
    /\ \E path \in PathInputs, table_id \in TableIds, variables \in VariablesInputs,
          lang \in LangInputs, r1 \in TableInfoResponses, r2 \in BulkResponses :
         \E end \in { get_csv(client, path, table_id, variables, lang, r1, r2, files) } :
           /\ last' = Finished([NoCall EXCEPT !.op = "get_csv", !.path = path,
                                              !.table_id = table_id,
                                              !.variables = variables, !.lang = lang],
                               end.out)
           /\ nreq' = nreq + Len(end.out.reqs)
           /\ files' = end.files
    /\ pc' = "done"
    /\ UNCHANGED client

(* The caller takes the result or the exception of the call *)
Return ==
    /\ pc = "done"
    /\ pc' = "idle"
    /\ last' = NoCall
    /\ UNCHANGED <<client, nreq, files>>

Next ==
    \/ CheckLang
    \/ Construct
    \/ ConstructDefault
    \/ GetSubjects
    \/ GetTables
    \/ GetVariables
    \/ GetMetadata
    \/ GetData
    \/ GetCsv
    \/ Return

Spec == Init /\ [][Next]_vars

---------------------------------------------------------------------------
(* What the claims speak of *)

LangSet == { PyStr(S_en), PyStr(S_da) }

Methods ==
    { "get_subjects", "get_tables", "get_variables", "get_metadata", "get_data", "get_csv" }

DigitsOnly(str) == str # <<>> /\ \A j \in 1..Len(str) : str[j] \in Digits

(* A numeric-string id, or a list of such ids *)
ValidFilter(v) ==
    \/ v.t = "str" /\ DigitsOnly(v.s)
    \/ v.t = "list" /\ \A j \in 1..Len(v.l) : v.l[j].t = "str" /\ DigitsOnly(v.l[j].s)

FilterIds(v) == IF v.t = "str" THEN { v.s } ELSE { v.l[j].s : j \in 1..Len(v.l) }

Contains(str, sub) ==
    \E i \in 1..(Len(str) - Len(sub) + 1) : SubSeq(str, i, i + Len(sub) - 1) = sub

(* The query of url has the parameter k with the value v *)
HasParam(url, k, v) ==
    LET kv == k \o <<"=">> \o v
    IN  \E i \in 2..(Len(url) - Len(kv) + 1) :
          /\ SubSeq(url, i, i + Len(kv) - 1) = kv
          /\ url[i - 1] \in {"?", "&"}
          /\ (i + Len(kv) - 1 = Len(url) \/ url[i + Len(kv)] = "&")

(* The language a call is to use: its override when one is supplied, the *)
(* language of the client otherwise                                      *)
Effective(lang) == IF lang.t = "none" THEN client.lang ELSE lang

S_format_json == <<"f", "o", "r", "m", "a", "t", "=", "J", "S", "O", "N">>

S_subjects_url == <<"h", "t", "t", "p", "s", ":", "/", "/", "a", "p", "i", ".", "s", "t", "a", "t", "b", "a", "n", "k", ".", "d", "k", "/", "v", "1", "/", "s", "u", "b", "j", "e", "c", "t", "s">>

S_true == <<"t", "r", "u", "e">>

S_includeInactive == <<"i", "n", "c", "l", "u", "d", "e", "I", "n", "a", "c", "t", "i", "v", "e">>

---------------------------------------------------------------------------
(* The arguments of the call other than the one a claim is about are valid *)
OthersValid ==
    /\ last.lang \in LangSet \cup {PyNone}
    /\ last.inactive.t \in {"none", "bool"}

(* C1: get_subjects requests the subjects resource with lang and           *)
(* format=JSON, and with a valid filter the requested URL holds the ids of *)
(* the filter and is not the URL requested without a filter.               *)
C1_FilterInRequest ==
    (last.op = "get_subjects" /\ OthersValid /\ last.reqs # <<>>) =>
        LET url == last.reqs[1].url
            plain == S_subjects_url \o S_q_lang \o Effective(last.lang).s
                     \o <<"&">> \o S_format_json
        IN  /\ HasParam(url, S_lang, Effective(last.lang).s)
            /\ HasParam(url, S_format, S_JSON)
            /\ (last.subjects.t \in {"str", "list"} /\ ValidFilter(last.subjects)
                /\ FilterIds(last.subjects) # {})
               => /\ \A id \in FilterIds(last.subjects) : Contains(url, id)
                  /\ url # plain

(* C2: check_lang raises ValueError for every code that is not "en" or    *)
(* "da", a value that is no string included, and returns the code         *)
(* unchanged for "en" and "da".                                           *)
C2_CheckLang ==
    last.op = "check_lang" =>
        IF last.lang \in LangSet
        THEN last.exc = "none" /\ last.ret = last.lang
        ELSE last.exc = "ValueError"

C2_Witness ==
    /\ pc = "done"
    /\ last.op = "check_lang"
    /\ last.lang = PyStr(S_fi)
    /\ last.exc = "ValueError"

(* C3: Dst(lang) raises ValueError at construction for every lang that is *)
(* not "en" or "da" and makes no client; for "en" and "da" the client     *)
(* stores the lang given, and Dst() stores "en".                          *)
C3_ConstructionValidates ==
    /\ last.op = "Dst" =>
         IF last.lang \in LangSet
         THEN last.exc = "none" /\ last.ret.made /\ last.ret.lang = last.lang
              /\ client = last.ret
         ELSE last.exc = "ValueError" /\ ~last.ret.made
    /\ last.op = "Dst()" =>
         last.exc = "none" /\ last.ret.made /\ last.ret.lang = PyStr(S_en)
         /\ client = last.ret
    /\ client.made => client.lang \in LangSet

C3_Witness ==
    /\ pc = "done"
    /\ last.op = "Dst"
    /\ last.lang = PyStr(S_fi)
    /\ last.exc = "ValueError"
    /\ ~client.made

(* C4: every method validates a supplied lang override: with an override  *)
(* that is not "en" or "da" it raises ValueError and requests nothing,    *)
(* with "en" or "da" every request it issues carries the override.        *)
C4_OverrideValidated ==
    (last.op \in Methods /\ last.lang.t # "none") =>
        IF last.lang \in LangSet
        THEN \A j \in 1..Len(last.reqs) : HasParam(last.reqs[j].url, S_lang, last.lang.s)
        ELSE last.exc = "ValueError" /\ last.reqs = <<>>

(* C5: get_subjects and get_tables, their other arguments being valid,   *)
(* raise ValueError for every subjects argument that is not None, not a   *)
(* string and not a sequence.                                             *)
C5_SubjectsTypeRejected ==
    (last.op \in {"get_subjects", "get_tables"} /\ OthersValid
     /\ last.subjects.t \notin {"none", "str", "list"}) =>
        last.exc = "ValueError"

(* C6: get_subjects and get_tables, their other arguments being valid,   *)
(* raise ValueError, and request nothing, for every subjects argument     *)
(* that is a string or a list and is not a digits-only string or a list   *)
(* of digits-only strings.                                                *)
C6_NonNumericRejected ==
    (last.op \in {"get_subjects", "get_tables"} /\ OthersValid
     /\ last.subjects.t \in {"str", "list"} /\ ~ValidFilter(last.subjects)) =>
        last.exc = "ValueError" /\ last.reqs = <<>>

(* C7: get_tables, given subjects it accepts, raises ValueError for every *)
(* inactive_tables that is no boolean, and its request carries            *)
(* includeInactive=true exactly when inactive_tables is the boolean True. *)
C7_InactiveIsBool ==
    (last.op = "get_tables" /\ last.lang.t = "none"
     /\ (last.subjects.t = "none" \/ ValidFilter(last.subjects))) =>
        /\ last.inactive.t # "bool" => last.exc = "ValueError" /\ last.reqs = <<>>
        /\ \A j \in 1..Len(last.reqs) :
             HasParam(last.reqs[j].url, S_includeInactive, S_true)
             <=> last.inactive = PyBool(TRUE)

(* C8: a response with a failing status and an empty or non-JSON body     *)
(* makes the response guard raise the HTTP error, with the status code    *)
(* and the default reason of the transport.                               *)
C8_GuardRaisesHttpError ==
    (last.op \in Methods /\ OthersValid /\ last.reqs # <<>>
     /\ ~ok(last.reqs[Len(last.reqs)].r)
     /\ last.reqs[Len(last.reqs)].r.body.kind = "invalid") =>
        /\ last.exc = "HTTPError"
        /\ last.status = last.reqs[Len(last.reqs)].r.status_code
        /\ last.reason = last.reqs[Len(last.reqs)].r.reason

(* The parent directory of the path of the call does not exist *)
MissingDirectory(path) ==
    LET full == IF path.anchor = "~" THEN Home \o path.parts
                ELSE IF path.anchor = "." THEN Cwd \o path.parts
                ELSE path.parts
    IN  SubSeq(full, 1, Len(full) - 1) \notin ExistingDirs

(* C9: a step in which get_csv is called with a valid language and a path *)
(* whose parent directory does not exist raises OSError, issues no        *)
(* request and leaves the files as they were.                             *)
C9_MissingDirectoryFirst ==
    [][(pc = "idle" /\ last'.op = "get_csv"
        /\ last'.lang \in LangSet \cup {PyNone}
        /\ MissingDirectory(last'.path)) =>
          (last'.exc = "OSError" /\ last'.reqs = <<>> /\ nreq' = nreq
           /\ files' = files)]_vars

C9_Witness ==
    /\ pc = "done"
    /\ last.op = "get_csv"
    /\ last.lang = PyStr(S_da)
    /\ last.path = [anchor |-> "~", parts |-> <<"data", "out.csv">>]
    /\ last.exc = "OSError"
    /\ last.reqs = <<>>
    /\ nreq > 0

(* The selection the caller makes of the variable id, if any *)
Selected(variables, id) ==
    IF variables.t = "dict" /\ \E j \in 1..Len(variables.d) : variables.d[j].k = id
    THEN LET j == CHOOSE j \in 1..Len(variables.d) : variables.d[j].k = id
         IN  Join(variables.d[j].v, <<",">>)
    ELSE <<>>

Supplies(variables, id) ==
    variables.t = "dict" /\ \E j \in 1..Len(variables.d) : variables.d[j].k = id

(* The bulk query of get_data and get_csv carries, for every variable of  *)
(* the table, the values the caller selects for it, or else its first     *)
(* allowed value.                                                         *)
BulkQueryResolved ==
    (last.op \in {"get_data", "get_csv"} /\ Len(last.reqs) = 2) =>
        /\ last.variables.t \in {"none", "dict"}
        /\ last.reqs[2].stream = (last.op = "get_csv")
        /\ \A j \in 1..Len(last.reqs[1].r.body.payload.variables) :
             LET row == last.reqs[1].r.body.payload.variables[j]
             IN  HasParam(last.reqs[2].url, row.id,
                          IF Supplies(last.variables, row.id)
                          THEN Selected(last.variables, row.id)
                          ELSE row.values[1].id)

(* C10 as stated: besides the resolution of the selections, a variables   *)
(* argument that is neither None nor a mapping makes get_data and get_csv *)
(* raise ValueError.                                                      *)
C10_AsStated ==
    /\ BulkQueryResolved
    /\ (last.op \in {"get_data", "get_csv"} /\ OthersValid
        /\ (\A j \in 1..Len(last.reqs) : last.reqs[j].r.body.kind = "object")
        /\ last.variables.t \notin {"none", "dict"}) => last.exc = "ValueError"

(* C10 amended: the resolution of the selections as stated; a variables   *)
(* argument that is neither None nor a mapping makes get_data and get_csv *)
(* raise ValueError once the request for the variables of the table has   *)
(* succeeded, and no bulk request is issued; an error met before that (a  *)
(* failed variables request, the missing directory of get_csv) is raised  *)
(* instead.                                                               *)
C10_SelectionsResolved ==
    /\ BulkQueryResolved
    /\ (last.op \in {"get_data", "get_csv"}
        /\ last.variables.t \notin {"none", "dict"}) =>
          /\ last.exc # "none"
          /\ Len(last.reqs) <= 1
          /\ (Len(last.reqs) = 1 /\ ok(last.reqs[1].r)) => last.exc = "ValueError"
          /\ (Len(last.reqs) = 1 /\ ~ok(last.reqs[1].r)) =>
                      last.exc \in {"HTTPError", "JSONDecodeError", "AttributeError"}

C10_Witness ==
    /\ pc = "done"
    /\ last.op = "get_csv"
    /\ last.variables = Dict(<< [k |-> <<"A">>, v |-> << <<"b">> >>] >>)
    /\ Len(last.reqs) = 2
    /\ Len(last.reqs[1].r.body.payload.variables) = 2
    /\ last.exc = "none"

---------------------------------------------------------------------------
(* C11 *)

SingleRequestMethods == { "get_subjects", "get_tables", "get_variables", "get_metadata" }

BulkMethods == { "get_data", "get_csv" }

StartsWith(str, prefix) ==
    Len(str) >= Len(prefix) /\ SubSeq(str, 1, Len(prefix)) = prefix

(* The requests of the finished call: none after an error raised before   *)
(* the network is reached; one for the methods of a single resource; for  *)
(* get_data and get_csv the request for the variables of the table and,   *)
(* once that one succeeded and variables is None or a mapping, the bulk   *)
(* request.                                                               *)
RequestsOfCall ==
    /\ last.op \in SingleRequestMethods =>
         /\ Len(last.reqs) <= 1
         /\ Len(last.reqs) = 0 <=> last.exc \in {"ValueError", "TypeError"}
    /\ last.op \in BulkMethods =>
         /\ Len(last.reqs) <= 2
         /\ Len(last.reqs) = 0 => last.exc \in {"ValueError", "OSError"}
         /\ last.exc = "OSError" => Len(last.reqs) = 0
         /\ Len(last.reqs) >= 1 =>
              StartsWith(last.reqs[1].url, S_tableinfo_url \o last.table_id)
         /\ Len(last.reqs) = 2 <=>
              (Len(last.reqs) >= 1 /\ bad_request_wrapper(last.reqs[1].r).exc = "none"
               /\ last.variables.t \in {"none", "dict"})
         /\ Len(last.reqs) = 2 =>
              /\ StartsWith(last.reqs[2].url, S_data_url \o last.table_id \o S_bulk)
              /\ last.reqs[2].stream = (last.op = "get_csv")
         /\ last.exc = "none" => Len(last.reqs) = 2
    /\ last.op \notin Methods => last.reqs = <<>>

(* C11 as stated: a method that reaches the network issues exactly one    *)
(* GET request, none issues two or more.                                  *)
C11_AsStated ==
    (last.op \in Methods /\ OthersValid) =>
      /\ Len(last.reqs) <= 1
      /\ last.exc = "none" => Len(last.reqs) = 1

(* C11 amended: get_subjects, get_tables, get_variables and get_metadata  *)
(* issue exactly one GET request when they reach the network and none     *)
(* otherwise; get_data and get_csv issue the request for the variables of *)
(* the table and then, when it succeeded and variables is None or a       *)
(* mapping, one bulk request, two at most; over any sequence of calls the *)
(* number of requests issued grows by the requests of each call.          *)
C11_RequestsPerCall ==
    [][pc' = "done" => (RequestsOfCall' /\ nreq' = nreq + Len(last'.reqs))]_vars

C11_Witness ==
    /\ pc = "done"
    /\ last.op = "get_csv"
    /\ last.exc = "none"
    /\ Len(last.reqs) = 2
    /\ nreq = 3

---------------------------------------------------------------------------
(* utils.desc_to_df called on its own, on every list of subject trees of  *)
(* at most MaxNodes nodes                                                  *)

Subject(id, description, active, hasSubjects, subjects) ==
    [id |-> id, description |-> description, active |-> active,
     hasSubjects |-> hasSubjects, subjects |-> subjects]

SubjectLabels ==
    { [id |-> "01", description |-> "People", active |-> TRUE],
      [id |-> "02", description |-> "Labour", active |-> FALSE] }

(* The nodes over a list of sub subjects *)
SubjectsOver(subjects) ==
    { Subject(l.id, l.description, l.active, h, subjects) :
        l \in SubjectLabels, h \in (IF subjects = <<>> THEN BOOLEAN ELSE {TRUE}) }

(* The lists of subject trees of n nodes in all *)
RECURSIVE SubjectLists(_)
SubjectLists(n) ==
    IF n = 0 THEN { <<>> }
    ELSE UNION { LET rests == SubjectLists(n - 1 - k)
                 IN  UNION { { <<i>> \o rest : i \in SubjectsOver(subjects), rest \in rests } :
                             subjects \in SubjectLists(k) } :
                 k \in 0..(n - 1) }

SubjectListInputs == UNION { SubjectLists(n) : n \in 0..MaxNodes }

InitFlatten ==
    /\ client = NoClient
    /\ nreq = 0
    /\ files = {}
    /\ pc = "idle"
    /\ last \in { [op |-> "desc_to_df", list_ |-> list_, ret |-> DataFrame(<<>>)] :
                    list_ \in SubjectListInputs }

DescToDf ==
    /\ pc = "idle"
    /\ last' = [last EXCEPT !.ret = desc_to_df(last.list_)]
    /\ pc' = "done"
    /\ UNCHANGED <<client, nreq, files>>

NextFlatten == DescToDf

SpecFlatten == InitFlatten /\ [][NextFlatten]_vars

---------------------------------------------------------------------------
(* C12 *)

(* The nodes of a list of trees, every node before its sub subjects and   *)
(* every tree before the next                                             *)
RECURSIVE PreOrder(_)
PreOrder(list_) ==
    IF list_ = <<>> THEN <<>>
    ELSE <<Head(list_)>> \o PreOrder(Head(list_).subjects) \o PreOrder(Tail(list_))

HasNoSubjects(node) == node.subjects = <<>>

RecordOf(node) ==
    [id |-> node.id, desc |-> node.description, active |-> node.active,
     hasSubjects |-> node.hasSubjects]

(* C12: desc_to_df returns exactly the pre-order sequence of the nodes    *)
(* whose subjects list is empty, one record {id, desc, active,            *)
(* hasSubjects} per such node; a node with sub subjects is never emitted  *)
(* itself; a list whose nodes all have an empty subjects list yields one  *)
(* record per node, in the same order.                                    *)
C12_PreOrderLeaves ==
    pc = "done" =>
      LET leaves == SelectSeq(PreOrder(last.list_), HasNoSubjects)
          rows == last.ret.rows
      IN  /\ rows = [j \in 1..Len(leaves) |-> RecordOf(leaves[j])]
          /\ Len(rows) = Cardinality({ j \in 1..Len(PreOrder(last.list_)) :
                                         HasNoSubjects(PreOrder(last.list_)[j]) })
          /\ (\A j \in 1..Len(last.list_) : HasNoSubjects(last.list_[j])) =>
               /\ Len(rows) = Len(last.list_)
               /\ \A j \in 1..Len(rows) : rows[j] = RecordOf(last.list_[j])

(* One leaf and one parent of two leaves yield three records *)
C12_Witness ==
    /\ pc = "done"
    /\ Len(last.list_) = 2
    /\ HasNoSubjects(last.list_[1])
    /\ Len(last.list_[2].subjects) = 2
    /\ Len(last.ret.rows) = 3
    /\ last.ret.rows[1].id = last.list_[1].id
    /\ last.ret.rows[3] = RecordOf(last.list_[2].subjects[2])

---------------------------------------------------------------------------
(* utils.construct_url called on its own *)

BaseInputs ==
    { <<"h", "t", "t", "p", "s", ":", "/", "/", "a", "p", "i", ".", "e", "x", "a", "m", "p", "l", "e", ".", "o", "r", "g">>,
      <<"h", "t", "t", "p", "s", ":", "/", "/", "a", "p", "i", ".", "e", "x", "a", "m", "p", "l", "e", ".", "o", "r", "g", "/">>,
      <<"/", "s", "r", "v">>,
      <<>> }

VersionInputs == { <<"v", "1">>, <<"v", "1", "/">>, <<"/", "v", "1">>, <<>> }

AppInputs == { <<"t", "a", "b", "l", "e", "s">>, <<"t", "a", "b", "l", "e", "s", "/", "/">>, <<"a", "\\", "b">>, <<"/", "t", "a", "b", "l", "e", "s">> }

SubpathInputs == { <<>>, <<"0", "2">>, <<"0", "2", "/">>, <<"/", "0", "2">> }

QueryValues ==
    { PyNone, PyStr(S_en), PyList(<<>>), PyList(<<PyStr(<<"0", "2">>)>>),
      PyList(<<PyStr(<<"0", "2">>), PyStr(<<"0", "5">>)>>) }

(* The mappings: no parameter, lang, subjects, or both in either order *)
QueryInputs ==
    { <<>> }
    \cup { << [k |-> k, v |-> v] >> : k \in {S_lang, S_subjects}, v \in QueryValues }
    \cup { << [k |-> S_lang, v |-> v], [k |-> S_subjects, v |-> w] >> :
             v \in QueryValues, w \in QueryValues }
    \cup { << [k |-> S_subjects, v |-> w], [k |-> S_lang, v |-> v] >> :
             v \in QueryValues, w \in QueryValues }

InitUrl ==
    /\ client = NoClient
    /\ nreq = 0
    /\ files = {}
    /\ pc = "idle"
    /\ last \in { [op |-> "construct_url", base |-> b, version |-> v, app |-> a,
                    path |-> p, query |-> q, ret |-> <<>>] :
                    b \in BaseInputs, v \in VersionInputs, a \in AppInputs,
                    p \in SubpathInputs, q \in QueryInputs }

ConstructUrl ==
    /\ pc = "idle"
    /\ last' = [last EXCEPT !.ret = construct_url(last.base, last.version, last.app,
                                                   last.path, last.query)]
    /\ pc' = "done"
    /\ UNCHANGED <<client, nreq, files>>

NextUrl == ConstructUrl

SpecUrl == InitUrl /\ [][NextUrl]_vars

---------------------------------------------------------------------------
(* C13 *)

NotEmpty(str) == str # <<>>

HasValue(item) == item.v # PyNone

(* base/version/resource[/subpath]: the components that are not empty,    *)
(* without the separators at their ends, one separator between them       *)
ExpectedPath(b, v, a, p) ==
    Join(SelectSeq(<< RStrip(b, "/"), Strip(v, "/"), Strip(a, "/"), Strip(p, "/") >>,
                   NotEmpty), <<"/">>)

(* key=value joined by '&' in mapping order, list values comma-joined,    *)
(* the entries without a value left out                                   *)
ExpectedQuery(query) ==
    LET present == SelectSeq(query, HasValue)
        value(v) == IF v.t = "str" THEN v.s
                    ELSE Join([j \in 1..Len(v.l) |-> v.l[j].s], <<",">>)
    IN  Join([j \in 1..Len(present) |->
                present[j].k \o <<"=">> \o value(present[j].v)], <<"&">>)

ExpectedUrl ==
    ExpectedPath(last.base, last.version, last.app, last.path) \o <<"?">>
    \o ExpectedQuery(last.query)

(* A component that has no backslash, does not begin with a separator and *)
(* ends with one separator at most                                        *)
PlainComponent(str) ==
    /\ \A j \in 1..Len(str) : str[j] # "\\"
    /\ str # <<>> => str[1] # "/"
    /\ Len(str) >= 2 => ~(str[Len(str)] = "/" /\ str[Len(str) - 1] = "/")

(* C13 as stated: for every base, version, resource, subpath and mapping  *)
(* the result is base/version/resource[/subpath] with single separators   *)
(* and no trailing separator, then '?' and the parameters.                *)
C13_AsStated ==
    (pc = "done"
     /\ \A str \in {last.base, last.version, last.app, last.path} :
          \A j \in 1..Len(str) : str[j] # "\\") => last.ret = ExpectedUrl

(* C13 amended: for components that have no backslash, do not begin with  *)
(* a separator and end with one separator at most (an empty component is  *)
(* left out), the result is base/version/resource[/subpath] with single   *)
(* separators and no trailing separator, then '?' and the parameters as   *)
(* key=value joined by '&' in mapping order, list values comma-joined,    *)
(* the entries whose value is None left out.                              *)
C13_UrlOfPlainComponents ==
    (pc = "done" /\ PlainComponent(last.base) /\ PlainComponent(last.version)
     /\ PlainComponent(last.app) /\ PlainComponent(last.path)) =>
       /\ last.ret = ExpectedUrl
       /\ LET before == SubSeq(last.ret, 1, Len(last.ret) - 1 - Len(ExpectedQuery(last.query)))
          IN  before # <<>> => before[Len(before)] # "/"

(* {lang: en, subjects: [02, 05]} on https://api.example.org, v1, tables  *)
C13_Witness ==
    /\ pc = "done"
    /\ last.base = <<"h", "t", "t", "p", "s", ":", "/", "/", "a", "p", "i", ".", "e", "x", "a", "m", "p", "l", "e", ".", "o", "r", "g">>
    /\ last.version = <<"v", "1">>
    /\ last.app = <<"t", "a", "b", "l", "e", "s">>
    /\ last.path = <<>>
    /\ last.query = << [k |-> S_lang, v |-> PyStr(S_en)],
                       [k |-> S_subjects,
                        v |-> PyList(<<PyStr(<<"0", "2">>), PyStr(<<"0", "5">>)>>)] >>
    /\ last.ret = <<"h", "t", "t", "p", "s", ":", "/", "/", "a", "p", "i", ".", "e", "x", "a", "m", "p", "l", "e", ".", "o", "r", "g", "/", "v", "1", "/", "t", "a", "b", "l", "e", "s", "?", "l", "a", "n", "g", "=", "e", "n", "&", "s", "u", "b", "j", "e", "c", "t", "s", "=", "0", "2", ",", "0", "5">>

=============================================================================
